---- MODULE Spec2Model ----
(***************************************************************************)
(* srcset-parse (src/src/lib.rs): parse(srcset) scans the text with the    *)
(* pattern (\S*[^,\s])(\s+([\d.]+)(x|w))? and turns every match into an    *)
(* ImageCandidate; ImageCandidate::partial_cmp orders candidates of one    *)
(* descriptor kind.                                                        *)
(*                                                                         *)
(* Strings are sequences of one-character strings.  Option<T> is a         *)
(* sequence of length at most one: None is <<>>, Some(v) is <<v>>.         *)
(***************************************************************************)
EXTENDS Integers, Sequences, FiniteSets, TLC

VARIABLES
    srcset,        \* the text handed to parse
    called,        \* parse has returned (or panicked) on srcset
    panicked,      \* the call unwound instead of returning
    results,       \* the Vec<ImageCandidate> parse returned
    SRCSEG_REGEX,  \* the OnceLock<Regex>: its state and its value
    built,         \* how many times Regex::new has run
    base,          \* Some(what parse returned before whitespace was added)
    layout,        \* Some(the segments and separators srcset was written from)
    cmp,           \* Some(the last comparison: its operands and its outcome)
    pc,            \* per thread: where its call of parse stands
    arg,           \* per thread: the text of its call
    re,            \* per thread: what get_or_init handed it
    ret            \* per thread: Some(what its last call returned)

vars == <<srcset, called, panicked, results, SRCSEG_REGEX, built, base, layout,
          cmp, pc, arg, re, ret>>

(***************************************************************************)
(* Bounds of the model.                                                    *)
(***************************************************************************)
MaxLen == 5
MaxSegs == 2
NumThreads == 2

(***************************************************************************)
(* Characters.                                                             *)
(***************************************************************************)
Whitespace == {" ", "\t", "\n"}
Digits == {"0", "1", "2", "5"}
Chars == {"a", "b", ",", "x", "w", "."} \cup Digits \cup Whitespace
NonSpace == Chars \ Whitespace
DigitsAndDot == Digits \cup {"."}

None == <<>>
Some(v) == <<v>>

\* The last index of the run of characters of class C that starts at j
\* (j - 1 when the run is empty): a greedy C*.
RECURSIVE ClassEnd(_, _, _)
ClassEnd(s, j, C) ==
    IF j > Len(s) \/ s[j] \notin C THEN j - 1 ELSE ClassEnd(s, j + 1, C)

(***************************************************************************)
(* SRCSEG_PATTERN, matched as the regex crate matches it (leftmost match,  *)
(* greedy repetitions, the optional group preferred over its absence).     *)
(***************************************************************************)
\* [^,\s] after a greedy \S*: the \S* gives characters back until the one
\* after it is neither a comma nor whitespace.  0: no match starts at i.
\* A back-off of one character at most: one trailing comma dropped.
BackOffOnce(s, i, e) ==
    IF e < i THEN 0
    ELSE IF s[e] # "," THEN e
    ELSE IF e - 1 >= i THEN e - 1 ELSE 0

RECURSIVE BackOff(_, _, _)
BackOff(s, i, e) ==
    IF e < i THEN 0
    ELSE IF s[e] # "," THEN e
    ELSE BackOff(s, i, e - 1)

\* Group 1 written (\S+): the whole run, its commas included.
UrlEndWholeRun(s, i) ==
    IF ClassEnd(s, i, NonSpace) < i THEN 0 ELSE ClassEnd(s, i, NonSpace)

\* Group 1, (\S*[^,\s]), anchored at i: the index of its last character.
UrlEnd(s, i) == BackOff(s, i, ClassEnd(s, i, NonSpace))

\* The pattern with \s in place of \s+: one whitespace character before the
\* numeral, no more.
MatchAtOneSpace(s, i, e) ==
    LET ws == IF e + 1 <= Len(s) /\ s[e + 1] \in Whitespace THEN e + 1 ELSE e
        ne == ClassEnd(s, ws + 1, DigitsAndDot)
        g2 == /\ ws >= e + 1
              /\ ne >= ws + 1
              /\ ne + 1 <= Len(s)
              /\ s[ne + 1] \in {"x", "w"}
    IN  [start |-> i,
         end   |-> IF g2 THEN ne + 1 ELSE e,
         g1    |-> SubSeq(s, i, e),
         g3    |-> IF g2 THEN Some(SubSeq(s, ws + 1, ne)) ELSE None,
         g4    |-> IF g2 THEN Some(s[ne + 1]) ELSE None]

\* The whole pattern anchored at i, where group 1 ends at e > 0: group 2,
\* (\s+([\d.]+)(x|w))?, takes part when whitespace, a run of digits and dots
\* and an x or a w follow.  The three classes are disjoint, so no shorter
\* \s+ or [\d.]+ can succeed where the greedy one fails.
MatchAt(s, i, e) ==
    LET ws == ClassEnd(s, e + 1, Whitespace)
        ne == ClassEnd(s, ws + 1, DigitsAndDot)
        g2 == /\ ws >= e + 1
              /\ ne >= ws + 1
              /\ ne + 1 <= Len(s)
              /\ s[ne + 1] \in {"x", "w"}
    IN  [start |-> i,
         end   |-> IF g2 THEN ne + 1 ELSE e,
         g1    |-> SubSeq(s, i, e),
         g3    |-> IF g2 THEN Some(SubSeq(s, ws + 1, ne)) ELSE None,
         g4    |-> IF g2 THEN Some(s[ne + 1]) ELSE None]

\* Regex::captures_iter: the successive non-overlapping matches, each the
\* leftmost one at or after the end of the one before.
RECURSIVE CapturesFrom(_, _)
CapturesFrom(s, pos) ==
    IF pos > Len(s) THEN <<>>
    ELSE LET e == UrlEnd(s, pos)
         IN  IF e = 0 THEN CapturesFrom(s, pos + 1)
             ELSE LET c == MatchAt(s, pos, e)
                  IN  <<c>> \o CapturesFrom(s, c.end + 1)

captures_iter(s) == CapturesFrom(s, 1)

(***************************************************************************)
(* str::parse::<f64> on a run of digits and dots.  A value is the decimal  *)
(* m / 10^s in lowest form (s = 0 or m not divisible by 10), so that two   *)
(* values are the same record exactly when the two f64 are ==.  (For the   *)
(* short numerals of this model the correctly rounded f64 keeps both the   *)
(* order and the distinctness of the decimals.)                            *)
(***************************************************************************)
DigitVal(c) ==
    CASE c = "0" -> 0 [] c = "1" -> 1 [] c = "2" -> 2 [] c = "5" -> 5

RECURSIVE Lowest(_, _)
Lowest(m, s) ==
    IF s > 0 /\ m % 10 = 0 THEN Lowest(m \div 10, s - 1) ELSE [m |-> m, s |-> s]

Zero == [m |-> 0, s |-> 0]

\* The digits of v read as one integer, the dot skipped.
RECURSIVE Mantissa(_, _, _)
Mantissa(v, j, acc) ==
    IF j > Len(v) THEN acc
    ELSE IF v[j] = "." THEN Mantissa(v, j + 1, acc)
    ELSE Mantissa(v, j + 1, 10 * acc + DigitVal(v[j]))

DotsIn(v) == {j \in 1..Len(v) : v[j] = "."}

\* Ok(value) as Some(value), Err as None: a numeral has at most one dot and
\* at least one digit ("1." and ".5" are numerals, "." and "1.2.3" are not).
ParseF64(v) ==
    IF Cardinality(DotsIn(v)) > 1 \/ Cardinality(DotsIn(v)) = Len(v)
    THEN None
    ELSE LET frac == IF DotsIn(v) = {} THEN 0
                     ELSE Len(v) - (CHOOSE j \in DotsIn(v) : TRUE)
         IN  Some(Lowest(Mantissa(v, 1, 0), frac))

\* Result::unwrap in its place: an Err unwinds.
unwrap(r) ==
    [panic |-> r = None, val |-> IF r = None THEN Zero ELSE r[1]]

\* Result::unwrap_or(-1.0) in its place: a marker value for an Err.
unwrap_or_minus_one(r) ==
    [panic |-> FALSE, val |-> IF r = None THEN [m |-> -1, s |-> 0] ELSE r[1]]

\* Result::unwrap_or_default: the value, or f64::default() = 0.0; it never
\* unwinds.
unwrap_or_default(r) ==
    [panic |-> FALSE, val |-> IF r = None THEN Zero ELSE r[1]]

\* value.map(|v| v.parse::<f64>().unwrap_or_default())
parsed_value(value) ==
    IF value = None THEN [panic |-> FALSE, val |-> None]
    ELSE LET r == unwrap_or_default(ParseF64(value[1]))
         IN  [panic |-> r.panic, val |-> Some(r.val)]

\* The two arms swapped: w fills density, x fills width.
FieldsSwapped(descriptor, pv) ==
    IF descriptor = Some("w") THEN [width |-> None, density |-> pv]
    ELSE IF descriptor = Some("x") THEN [width |-> pv, density |-> None]
    ELSE [width |-> None, density |-> None]

\* match descriptor { Some("w") => .., Some("x") => .., _ => (None, None) }
Fields(descriptor, pv) ==
    IF descriptor = Some("w") THEN [width |-> pv, density |-> None]
    ELSE IF descriptor = Some("x") THEN [width |-> None, density |-> pv]
    ELSE [width |-> None, density |-> None]

ImageCandidate(url, width, density) ==
    [url |-> url, width |-> width, density |-> density]

\* The body of the loop of parse for one match.
Candidate(caps) ==
    LET f == Fields(caps.g4, parsed_value(caps.g3).val)
    IN  ImageCandidate(caps.g1, f.width, f.density)

\* parse: one candidate per match, in the order of the matches; a panic in
\* the loop unwinds the call and nothing is returned.
parse(s) ==
    LET caps == captures_iter(s)
        panic == \E i \in 1..Len(caps) : parsed_value(caps[i].g3).panic
    IN  [panicked |-> panic,
         results  |-> IF panic THEN <<>>
                      ELSE [i \in 1..Len(caps) |-> Candidate(caps[i])]]

(***************************************************************************)
(* impl PartialOrd for ImageCandidate.  f64::partial_cmp is None only for  *)
(* a NaN operand; the values parse produces are never NaN, since [\d.]+    *)
(* cannot spell one.  An unwrap of None unwinds.                           *)
(***************************************************************************)
\* a < b, for the decimals a.m / 10^a.s and b.m / 10^b.s
RECURSIVE Pow10(_)
Pow10(n) == IF n = 0 THEN 1 ELSE 10 * Pow10(n - 1)

NumLess(a, b) == a.m * Pow10(b.s) < b.m * Pow10(a.s)

\* b.partial_cmp(&a): the operands the wrong way round.
F64PartialCmpReversed(a, b) ==
    IF NumLess(b, a) THEN Some("Less")
    ELSE IF NumLess(a, b) THEN Some("Greater")
    ELSE Some("Equal")

F64PartialCmp(a, b) ==
    IF NumLess(a, b) THEN Some("Less")
    ELSE IF NumLess(b, a) THEN Some("Greater")
    ELSE Some("Equal")

\* Some(a.partial_cmp(&b).unwrap())
SomeUnwrap(o) ==
    [panic |-> o = None, val |-> IF o = None THEN None ELSE Some(o[1])]

\* The last arm written _ => Some(Ordering::Equal).
partial_cmp_total(self, other) ==
    IF /\ self.width # None /\ self.density = None
       /\ other.width # None /\ other.density = None
    THEN SomeUnwrap(F64PartialCmp(self.width[1], other.width[1]))
    ELSE IF /\ self.width = None /\ self.density # None
            /\ other.width = None /\ other.density # None
    THEN SomeUnwrap(F64PartialCmp(self.density[1], other.density[1]))
    ELSE [panic |-> FALSE, val |-> Some("Equal")]

partial_cmp(self, other) ==
    IF /\ self.width # None /\ self.density = None
       /\ other.width # None /\ other.density = None
    THEN SomeUnwrap(F64PartialCmp(self.width[1], other.width[1]))
    ELSE IF /\ self.width = None /\ self.density # None
            /\ other.width = None /\ other.density # None
    THEN SomeUnwrap(F64PartialCmp(self.density[1], other.density[1]))
    ELSE [panic |-> FALSE, val |-> None]

(***************************************************************************)
(* SRCSEG_REGEX: OnceLock<Regex>.  get_or_init runs the initializer of one *)
(* caller only; a caller that finds an initialization running waits for    *)
(* it, and the value, once set, is only handed out by reference.           *)
(***************************************************************************)
Uninit == [state |-> "uninit", value |-> None]
Running == [state |-> "running", value |-> None]
Complete == [state |-> "complete", value |-> Some("SRCSEG_PATTERN")]

\* The loop of parse run with the matcher get_or_init handed out.
ScanWith(r, s) ==
    IF r = Complete.value THEN parse(s)
    ELSE [panicked |-> TRUE, results |-> <<>>]

Threads == 1..NumThreads

(***************************************************************************)
(* Texts.                                                                  *)
(***************************************************************************)
Alphabet == {"a", ",", " ", "\n", "0", "1", ".", "x", "w"}

StringsUpTo(n) == UNION {[1..k -> Alphabet] : k \in 0..n}

\* s with the character c put in after its first p characters.
Insert(s, p, c) == SubSeq(s, 1, p) \o <<c>> \o SubSeq(s, p + 1, Len(s))

\* Where a segment found by the scan starts, where its url ends and where
\* it ends, as numbers of characters before the place.
SegmentEdges(s) ==
    LET caps == captures_iter(s)
    IN  UNION {{caps[i].start - 1, caps[i].start - 1 + Len(caps[i].g1), caps[i].end} :
                 i \in 1..Len(caps)}

\* The places of s where whitespace or a segment boundary already is: its
\* two ends, either side of a whitespace character, the edges of a segment.
PadPlaces(s) ==
    LET edges == SegmentEdges(s)
    IN  {p \in 0..Len(s) :
            \/ p = 0
            \/ p = Len(s)
            \/ s[p] \in Whitespace
            \/ s[p + 1] \in Whitespace
            \/ p \in edges}

\* A text written from segments: each a url, then perhaps a descriptor
\* (whitespace, a numeral, x or w), the segments held apart by separators.
Urls == {<<"a">>, <<"b", ",", "a">>, <<"1", "x">>}

Descs ==
    {None,
     Some([gap |-> <<" ">>, num |-> <<"1">>, suffix |-> "x", val |-> [m |-> 1, s |-> 0]]),
     Some([gap |-> <<"\n", " ">>, num |-> <<"2", "0">>, suffix |-> "w", val |-> [m |-> 20, s |-> 0]]),
     Some([gap |-> <<"\t">>, num |-> <<"1", ".", "5">>, suffix |-> "x", val |-> [m |-> 15, s |-> 1]]),
     Some([gap |-> <<" ">>, num |-> <<".", ".">>, suffix |-> "w", val |-> Zero])}

Segments == [url : Urls, desc : Descs]

SpacedSeps == {<<",", " ">>, <<" ", ",", "\n">>, <<",", ",", " ">>}
Seps == SpacedSeps \cup {<<",">>}
Leads == {<<>>, <<" ">>}
Trails == {<<>>, <<" ">>, <<",">>}

SegText(g) ==
    g.url \o (IF g.desc = None THEN <<>>
              ELSE g.desc[1].gap \o g.desc[1].num \o <<g.desc[1].suffix>>)

RECURSIVE Body(_, _, _)
Body(segs, seps, i) ==
    IF i > Len(segs) THEN <<>>
    ELSE SegText(segs[i]) \o (IF i < Len(segs) THEN seps[i] ELSE <<>>)
         \o Body(segs, seps, i + 1)

Text(l) == l.lead \o Body(l.segs, l.seps, 1) \o l.trail

Layouts(n) ==
    [lead : Leads, segs : [1..n -> Segments], seps : [1..(n - 1) -> Seps],
     trail : Trails]

(***************************************************************************)
(* The state before any call.                                              *)
(***************************************************************************)
Fresh ==
    /\ called = FALSE
    /\ panicked = FALSE
    /\ results = <<>>
    /\ SRCSEG_REGEX = Uninit
    /\ built = 0
    /\ base = None
    /\ cmp = None
    /\ pc = [t \in Threads |-> "idle"]
    /\ arg = [t \in Threads |-> <<>>]
    /\ re = [t \in Threads |-> None]
    /\ ret = [t \in Threads |-> None]

\* let results = parse(srcset); by one thread, start to end.
Parse ==
    /\ ~called
    /\ LET r == parse(srcset)
       IN  /\ panicked' = r.panicked
           /\ results' = r.results
    /\ called' = TRUE
    /\ SRCSEG_REGEX' = Complete
    /\ built' = IF SRCSEG_REGEX.state = "uninit" THEN built + 1 ELSE built
    /\ UNCHANGED <<srcset, base, layout, cmp, pc, arg, re, ret>>

\* parse called again on the text with one more whitespace character c put
\* in at place p (Next draws p from PadPlaces: where whitespace or a segment
\* boundary already is).
Pad(p, c) ==
    /\ called
    /\ ~panicked
    /\ Len(srcset) < MaxLen
    /\ srcset' = Insert(srcset, p, c)
    /\ LET r == parse(srcset')
       IN  /\ panicked' = r.panicked
           /\ results' = r.results
    /\ base' = IF base = None THEN Some(results) ELSE base
    /\ UNCHANGED <<called, SRCSEG_REGEX, built, layout, cmp, pc, arg, re, ret>>

\* results[i].partial_cmp(&results[j])
Compare(i, j) ==
    /\ called
    /\ ~panicked
    /\ i \in 1..Len(results)
    /\ j \in 1..Len(results)
    /\ cmp' = Some([i |-> i, j |-> j, a |-> results[i], b |-> results[j],
                    ord |-> partial_cmp(results[i], results[j])])
    /\ UNCHANGED <<srcset, called, panicked, results, SRCSEG_REGEX, built, base,
                   layout, pc, arg, re, ret>>

(***************************************************************************)
(* Spec: parse on every text of at most MaxLen characters, and again with  *)
(* whitespace added.                                                       *)
(***************************************************************************)
Init ==
    /\ srcset \in StringsUpTo(MaxLen)
    /\ layout = None
    /\ Fresh

Next ==
    \/ Parse
    \/ \E p \in PadPlaces(srcset), c \in Whitespace \cap Alphabet : Pad(p, c)

Spec == Init /\ [][Next]_vars

(***************************************************************************)
(* SpecSeg: parse on the texts written from at most MaxSegs segments, and  *)
(* on every text of at most MaxLen characters.                             *)
(***************************************************************************)
InitSeg ==
    /\ \/ \E n \in 0..MaxSegs : \E l \in Layouts(n) :
             /\ layout = Some(l)
             /\ srcset = Text(l)
       \/ /\ srcset \in StringsUpTo(MaxLen)
          /\ layout = None
    /\ Fresh

NextSeg == Parse

SpecSeg == InitSeg /\ [][NextSeg]_vars

(***************************************************************************)
(* SpecCmp: two candidates of one result compared.                         *)
(***************************************************************************)
CmpUrls == {<<"a">>, <<"b">>}

\* The numerals of the descriptors, each with the rank of its value among
\* them: "." is no numeral and stands for 0.0, then 0.5 < 1 = 1.0 < 2.
CmpNums ==
    {[num |-> <<".">>, rank |-> 0],
     [num |-> <<".", "5">>, rank |-> 1],
     [num |-> <<"1">>, rank |-> 2],
     [num |-> <<"1", ".", "0">>, rank |-> 2],
     [num |-> <<"2">>, rank |-> 3]}

CmpDescs ==
    {None} \cup
    {Some([gap |-> <<" ">>, num |-> n.num, suffix |-> x, rank |-> n.rank]) :
        n \in CmpNums, x \in {"x", "w"}}

InitCmp ==
    /\ \E sg \in [1..2 -> [url : CmpUrls, desc : CmpDescs]] :
          LET l == [lead |-> <<>>, segs |-> sg, seps |-> <<<<",", " ">>>>,
                    trail |-> <<>>]
          IN  /\ layout = Some(l)
              /\ srcset = Text(l)
    /\ Fresh

NextCmp ==
    \/ Parse
    \/ \E i, j \in 1..2 : Compare(i, j)

SpecCmp == InitCmp /\ [][NextCmp]_vars

(***************************************************************************)
(* SpecConc: NumThreads threads call parse again and again, each call in   *)
(* three steps: SRCSEG_REGEX.get_or_init (entering it, and for the one     *)
(* initializer Regex::new and the publication), then the loop.             *)
(***************************************************************************)
ConcInputs ==
    {<<>>, <<"a", " ", "1", "x">>, <<"a", ",", " ", "b", " ", "2", "w">>}

\* pub fn parse(srcset: &str), entered by thread t
Call(t, s) ==
    /\ pc[t] \in {"idle", "done"}
    /\ pc' = [pc EXCEPT ![t] = "get_or_init"]
    /\ arg' = [arg EXCEPT ![t] = s]
    /\ ret' = [ret EXCEPT ![t] = None]
    /\ re' = [re EXCEPT ![t] = None]
    /\ UNCHANGED <<srcset, called, panicked, results, SRCSEG_REGEX, built, base,
                   layout, cmp>>

\* get_or_init with no wait: a caller that finds no value yet runs its own
\* initializer, whether or not another one is running.
GetOrInitNoWait(t) ==
    /\ pc[t] = "get_or_init"
    /\ \/ /\ SRCSEG_REGEX.state = "complete"
          /\ re' = [re EXCEPT ![t] = SRCSEG_REGEX.value]
          /\ pc' = [pc EXCEPT ![t] = "scan"]
          /\ UNCHANGED SRCSEG_REGEX
       \/ /\ SRCSEG_REGEX.state # "complete"
          /\ SRCSEG_REGEX' = Running
          /\ pc' = [pc EXCEPT ![t] = "init"]
          /\ UNCHANGED re
    /\ UNCHANGED <<srcset, called, panicked, results, built, base, layout, cmp,
                   arg, ret>>

\* SRCSEG_REGEX.get_or_init(..) entered: the value is there and is handed
\* out, or nobody has begun and t becomes the initializer; while another
\* thread initializes, t waits.
GetOrInit(t) ==
    /\ pc[t] = "get_or_init"
    /\ \/ /\ SRCSEG_REGEX.state = "complete"
          /\ re' = [re EXCEPT ![t] = SRCSEG_REGEX.value]
          /\ pc' = [pc EXCEPT ![t] = "scan"]
          /\ UNCHANGED SRCSEG_REGEX
       \/ /\ SRCSEG_REGEX.state = "uninit"
          /\ SRCSEG_REGEX' = Running
          /\ pc' = [pc EXCEPT ![t] = "init"]
          /\ UNCHANGED re
    /\ UNCHANGED <<srcset, called, panicked, results, built, base, layout, cmp,
                   arg, ret>>

\* || Regex::new(SRCSEG_PATTERN).expect("Invalid regex"): the pattern is a
\* valid one, so expect does not unwind; the value is published.
InitRegex(t) ==
    /\ pc[t] = "init"
    /\ built' = built + 1
    /\ SRCSEG_REGEX' = Complete
    /\ re' = [re EXCEPT ![t] = Complete.value]
    /\ pc' = [pc EXCEPT ![t] = "scan"]
    /\ UNCHANGED <<srcset, called, panicked, results, base, layout, cmp, arg, ret>>

\* for caps in re.captures_iter(srcset) { .. } results
Scan(t) ==
    /\ pc[t] = "scan"
    /\ ret' = [ret EXCEPT ![t] = Some(ScanWith(re[t], arg[t]))]
    /\ pc' = [pc EXCEPT ![t] = "done"]
    /\ UNCHANGED <<srcset, called, panicked, results, SRCSEG_REGEX, built, base,
                   layout, cmp, arg, re>>

InitConc ==
    /\ srcset = <<>>
    /\ layout = None
    /\ Fresh

NextConc ==
    \E t \in Threads :
        \/ \E s \in ConcInputs : Call(t, s)
        \/ GetOrInit(t)
        \/ InitRegex(t)
        \/ Scan(t)

SpecConc == InitConc /\ [][NextConc]_vars

(***************************************************************************)
(* The claims.                                                             *)
(***************************************************************************)
\* The matches the scan finds in the text of the call.
Caps == captures_iter(srcset)

TheLayout == layout[1]
NumSegs == Len(TheLayout.segs)

\* Every separator of the layout has whitespace after its comma.
Spaced == \A i \in 1..(NumSegs - 1) : TheLayout.seps[i] \in SpacedSeps

\* A numeral is not a decimal number: more than one point, or only points.
NotADecimal(n) ==
    \/ Cardinality({j \in 1..Len(n) : n[j] = "."}) > 1
    \/ \A j \in 1..Len(n) : n[j] = "."

Malformed(g) == g.desc # None /\ NotADecimal(g.desc[1].num)

\* The candidate a segment stands for, by the table of descriptors.
Expected(g) ==
    ImageCandidate(g.url,
        IF g.desc # None /\ g.desc[1].suffix = "w" THEN Some(g.desc[1].val) ELSE None,
        IF g.desc # None /\ g.desc[1].suffix = "x" THEN Some(g.desc[1].val) ELSE None)

Corresponds ==
    /\ Len(results) = NumSegs
    /\ \A i \in 1..NumSegs : results[i] = Expected(TheLayout.segs[i])

WellFormed == \A i \in 1..NumSegs : ~Malformed(TheLayout.segs[i])

\* C1 as claimed: for a text of N comma-separated segments (a url, then
\* perhaps whitespace, a number and x or w), whatever stands around the
\* commas, parse returns N candidates, the i-th the one of the i-th segment;
\* for no segment it returns the empty sequence.
C1_CommaSeparated ==
    (called /\ layout # None /\ WellFormed) => Corresponds

\* C1, amended: the same for a text whose segments are separated by a comma
\* followed by whitespace.
C1_CommaSpaceSeparated ==
    (called /\ layout # None /\ WellFormed /\ Spaced) => Corresponds

C1_Witness ==
    /\ called
    /\ layout # None
    /\ WellFormed
    /\ Spaced
    /\ NumSegs = 2
    /\ TheLayout.segs[1].desc # None
    /\ TheLayout.segs[2].desc # None
    /\ Len(results) = 2
    /\ results[1].density # None
    /\ results[2].width # None

\* C2: parse never unwinds, whatever the text; a segment whose number is no
\* decimal number still yields its candidate, with the value 0.0, and every
\* segment after it yields its candidate too.
C2_TotalWithDefault ==
    called =>
        /\ ~panicked
        /\ Len(results) = Len(Caps)
        /\ (layout # None /\ Spaced) =>
              \A i \in 1..NumSegs :
                 Malformed(TheLayout.segs[i]) =>
                    /\ Len(results) = NumSegs
                    /\ \/ results[i].width = Some(Zero)
                       \/ results[i].density = Some(Zero)
                    /\ \A j \in i..NumSegs : results[j] = Expected(TheLayout.segs[j])

C2_Witness ==
    /\ called
    /\ layout # None
    /\ Spaced
    /\ NumSegs = 2
    /\ Malformed(TheLayout.segs[1])
    /\ ~panicked
    /\ Len(results) = 2
    /\ results[1].width = Some(Zero)
    /\ results[2].density # None

\* C3: the suffix alone decides the fields of every candidate: w sets width
\* and leaves density absent, x sets density and leaves width absent, no
\* descriptor leaves both absent; no candidate has both.
C3_SuffixDecidesFields ==
    (called /\ layout = None) =>
        LET caps == Caps
        IN  /\ Len(results) = Len(caps)
            /\ \A i \in 1..Len(results) :
                  /\ caps[i].g4 = Some("w") =>
                        results[i].width # None /\ results[i].density = None
                  /\ caps[i].g4 = Some("x") =>
                        results[i].density # None /\ results[i].width = None
                  /\ caps[i].g4 = None =>
                        results[i].width = None /\ results[i].density = None
                  /\ ~(results[i].width # None /\ results[i].density # None)

C3_Witness ==
    /\ called
    /\ layout = None
    /\ Len(results) = 2
    /\ Caps[1].g4 = Some("w")
    /\ results[1].width # None
    /\ results[1].density = None
    /\ results[2].width = None
    /\ results[2].density = None

HasInnerComma(u) == \E k \in 2..(Len(u) - 1) : u[k] = ","

\* C4: a url token with a comma inside (further non-whitespace characters
\* of the token after it) comes back as the url of one candidate, its inner
\* commas kept and every comma at its end dropped, with or without a
\* descriptor after it.
C4_InnerCommasKept ==
    (called /\ layout # None /\ Spaced) =>
        \A i \in 1..NumSegs :
           HasInnerComma(TheLayout.segs[i].url) =>
              /\ i <= Len(results)
              /\ results[i].url = TheLayout.segs[i].url
              /\ TheLayout.segs[i].desc = None =>
                    results[i].width = None /\ results[i].density = None
              /\ TheLayout.segs[i].desc # None =>
                    results[i].width # None \/ results[i].density # None

\* the text is "b,a,, b,a 1x" or the like: two commas after the first token
C4_Witness ==
    /\ called
    /\ layout # None
    /\ NumSegs = 2
    /\ TheLayout.segs[1] = [url |-> <<"b", ",", "a">>, desc |-> None]
    /\ TheLayout.seps[1] = <<",", ",", " ">>
    /\ TheLayout.segs[2].url = <<"b", ",", "a">>
    /\ TheLayout.segs[2].desc # None
    /\ Len(results) = 2
    /\ results[1].url = <<"b", ",", "a">>
    /\ results[2].url = <<"b", ",", "a">>

\* C5: whitespace added at the start, at the end, or where whitespace or a
\* segment boundary already is leaves the result of parse as it was.
C5_WhitespaceTolerance ==
    base # None => (~panicked /\ results = base[1])

\* a descriptor now two whitespace characters away from its url
C5_Witness ==
    /\ base # None
    /\ Len(results) >= 1
    /\ results[1].density # None
    /\ \E p \in 1..(Len(srcset) - 1) :
          /\ srcset[p] \in Whitespace
          /\ srcset[p + 1] \in Whitespace
          /\ p > 1
          /\ srcset[p - 1] = "a"
          /\ p + 2 <= Len(srcset)
          /\ srcset[p + 2] \in Digits

RECURSIVE StripCommas(_)
StripCommas(u) ==
    IF u # <<>> /\ u[Len(u)] = "," THEN StripCommas(SubSeq(u, 1, Len(u) - 1)) ELSE u

\* C7 as claimed: every url is non-empty, holds no whitespace, does not end
\* with a comma, and is a whole whitespace-delimited token of the text less
\* its trailing commas: it starts at the start of the text or right after a
\* whitespace character.
C7_UrlIsWholeToken ==
    (called /\ layout = None) =>
        \A i \in 1..Len(results) :
           LET u == results[i].url
           IN  /\ u # <<>>
               /\ \A k \in 1..Len(u) : u[k] \notin Whitespace
               /\ u[Len(u)] # ","
               /\ \E p \in 1..Len(srcset) :
                     /\ p = 1 \/ srcset[p - 1] \in Whitespace
                     /\ u = StripCommas(SubSeq(srcset, p, ClassEnd(srcset, p, NonSpace)))

Present(c) ==
    (IF c.width # None THEN {c.width[1]} ELSE {})
        \cup (IF c.density # None THEN {c.density[1]} ELSE {})

\* C8 as claimed: every width and every density parse returns is greater
\* than zero.
C8_ValuesPositive ==
    (called /\ layout = None) =>
        \A i \in 1..Len(results) : \A v \in Present(results[i]) : v.m > 0

\* C8, amended: every width and every density parse returns is zero or
\* greater.
C8_ValuesNotNegative ==
    (called /\ layout = None) =>
        \A i \in 1..Len(results) : \A v \in Present(results[i]) : v.m >= 0

\* "a .x": the number is no decimal number and the density is 0.0
C8_Witness ==
    /\ called
    /\ layout = None
    /\ Len(results) = 1
    /\ Caps[1].g3 = Some(<<".">>)
    /\ results[1].density = Some(Zero)

\* The order of two numbers by their ranks in the table of numerals.
RankOrder(r1, r2) ==
    IF r1 < r2 THEN "Less" ELSE IF r1 > r2 THEN "Greater" ELSE "Equal"

\* The rank of the number the k-th segment of the layout carries.
RankOf(k) == TheLayout.segs[k].desc[1].rank

\* C6: the comparison is the numeric order of the widths when both carry a
\* width, that of the densities when both carry a density, and
\* "incomparable" (None) in every other case, a descriptor-less candidate
\* against itself included; it never ends in an error.
C6_ComparisonRule ==
    cmp # None =>
        LET a == cmp[1].a
            b == cmp[1].b
            ord == cmp[1].ord
        IN  /\ ~ord.panic
            /\ (a.width # None /\ b.width # None) =>
                  ord.val = Some(RankOrder(RankOf(cmp[1].i), RankOf(cmp[1].j)))
            /\ (a.density # None /\ b.density # None) =>
                  ord.val = Some(RankOrder(RankOf(cmp[1].i), RankOf(cmp[1].j)))
            /\ ~(a.width # None /\ b.width # None)
                  /\ ~(a.density # None /\ b.density # None) =>
                  ord.val = None

\* 0.5w against 1w is Less
C6_Witness ==
    /\ cmp # None
    /\ cmp[1].i = 1
    /\ cmp[1].j = 2
    /\ TheLayout.segs[1].desc # None
    /\ TheLayout.segs[2].desc # None
    /\ TheLayout.segs[1].desc[1].num = <<".", "5">>
    /\ TheLayout.segs[2].desc[1].num = <<"1">>
    /\ cmp[1].a.width # None
    /\ cmp[1].b.width # None
    /\ cmp[1].ord.val = Some("Less")

\* C10 as claimed: the comparison is "equal" exactly when the two candidates
\* are equal field by field.
C10_EqualIffSameFields ==
    cmp # None => (cmp[1].ord.val = Some("Equal") <=> cmp[1].a = cmp[1].b)

\* C10, amended: the comparison is "equal" exactly when the two candidates
\* carry a descriptor of the same kind with equal values, whatever their
\* urls; without a descriptor a candidate is not "equal" even to itself.
C10_EqualIffSameDescriptor ==
    cmp # None =>
        (cmp[1].ord.val = Some("Equal") <=>
            /\ cmp[1].a.width = cmp[1].b.width
            /\ cmp[1].a.density = cmp[1].b.density
            /\ cmp[1].a.width # None \/ cmp[1].a.density # None)

\* "a 1x, b 1.0x": equal, with different urls
C10_Witness ==
    /\ cmp # None
    /\ cmp[1].i = 1
    /\ cmp[1].j = 2
    /\ cmp[1].a.url # cmp[1].b.url
    /\ cmp[1].a.density # None
    /\ cmp[1].b.density # None
    /\ TheLayout.segs[1].desc[1].num # TheLayout.segs[2].desc[1].num
    /\ cmp[1].ord.val = Some("Equal")

\* What a call of parse on s returns when it runs alone.
Alone(s) == parse(s)

C9_State ==
    /\ built <= 1
    /\ SRCSEG_REGEX.state = "complete" => built = 1
    /\ \A t \in Threads :
          /\ pc[t] = "scan" => (SRCSEG_REGEX = Complete /\ re[t] = Complete.value)
          /\ pc[t] = "done" => (ret[t] = Some(Alone(arg[t])) /\ ~ret[t][1].panicked)

\* C9: however the calls interleave, the matcher is built at most once, no
\* call scans with it before it is complete, it does not change once
\* published, and every call returns what it returns when run alone.
C9_OnceAndSameResults ==
    /\ []C9_State
    /\ [][SRCSEG_REGEX.state = "complete" => SRCSEG_REGEX' = SRCSEG_REGEX]_vars

\* both threads have returned a result of two candidates, one matcher built
C9_Witness ==
    /\ built = 1
    /\ \A t \in Threads : pc[t] = "done" /\ Len(ret[t][1].results) = 2
    /\ \E t \in Threads : re[t] = Complete.value
====
